---- MODULE Spec2Model ----
(***************************************************************************)
(* A model of the planets simulation: the N-body gravity integrator        *)
(* (apply_gravity, calculate_force), the trail recorder (update_planets,   *)
(* PlanetTrail::add_position), the way the Bevy schedules run them, and    *)
(* the camera controller (handle_camera_pan, zoom_control).                *)
(*                                                                         *)
(* Numbers.  TLC has integers only, so the model fixes units in which the  *)
(* quantities of the simulation are integers:                              *)
(*   length  1 unit = AU / 1000                                            *)
(*   time    TIMESTEP = 2 units                                            *)
(*   mass    chosen so that GRAVITY = 20 000 000 in these units            *)
(*   screen  1 unit = 1/8 pixel (f32 coordinates of Transform and Vec2)    *)
(* An f64 is an integer of magnitude at most MaxFinite, or one of PosInf,  *)
(* NegInf, NaN.  The f64 operations are total, as IEEE 754 makes them: a   *)
(* division by zero gives an infinity or NaN, an overflow an infinity, and *)
(* non-finite values propagate.  Rounding is sign-symmetric (a division    *)
(* truncates toward zero, a square root rounds down); a step in which no   *)
(* operation rounds is computed exactly.  A value that is not zero but is  *)
(* smaller than one unit is kept as Tiny or -Tiny: zero is never the       *)
(* result of rounding.  cos(atan2(y, x)) and sin(atan2(y, x)) are the      *)
(* ratios x/r and y/r with r = sqrt(x^2 + y^2), except along the axes,     *)
(* where the angle is a multiple of pi/2 that no f64 is: there the cosine  *)
(* or sine that would be zero is Tiny.                                     *)
(* An f32 screen coordinate keeps 24 significant bits (F32Round).  The     *)
(* camera's zoom scale is a full f32: a 24-bit significand and an          *)
(* exponent, multiplied and divided with round-to-nearest-even.            *)
(***************************************************************************)
EXTENDS Integers, Sequences, FiniteSets, TLC

VARIABLES
    planets,        \* the Planet entities, in spawn order: mass, position, velocity, translation, trail
    appended,       \* history: per entity, every Vec2 add_position has pushed, in order
    build,          \* "plugins" (planets/mod.rs, camera/mod.rs) or "main" (main.rs)
    order,          \* the order the executor gives apply_gravity and update_planets
    pending,        \* the systems still to run in the current frame
    frames,         \* rendered frames so far
    overstep,       \* time accumulated toward the next fixed tick
    fixedTicks,     \* fixed time-step ticks so far
    gravitySteps,   \* history: runs of apply_gravity
    updateSteps,    \* history: runs of update_planets
    before,         \* history: the entities as the latest run of apply_gravity found them
    camera_translation, \* Transform.translation of the MainCamera, x and y in 1/8 pixel
    projection_scale,   \* OrthographicProjection.scale of the MainCamera, an f32
    input,          \* Input<MouseButton> for MouseButton::Right: pressed, just_pressed
    handled,        \* history: events read so far by handle_camera_pan and zoom_control
    panStreak,      \* history: the latest run of equal motion events that panned the camera
    zoomLog,        \* history: the last two scroll events read, with the scale each found
    lastRead        \* history: the camera system of the latest step and the events it read

simVars == <<planets, appended, build, order, pending, frames, overstep,
             fixedTicks, gravitySteps, updateSteps, before>>

camVars == <<camera_translation, projection_scale, input, handled, panStreak, zoomLog,
             lastRead>>

vars == <<simVars, camVars>>

(***************************************************************************)
(* f64                                                                     *)
(***************************************************************************)
MaxFinite == 1000000000
Tiny == 1500000000
PosInf == 2000000000
NegInf == -PosInf
NaN == PosInf + 1

\* a number the model resolves: an integer of magnitude at most MaxFinite
IsInt(a) == a >= -MaxFinite /\ a <= MaxFinite

\* a number that is not zero and is smaller than any the model resolves
IsTiny(a) == a = Tiny \/ a = -Tiny

\* f64::is_finite
IsFinite(a) == IsInt(a) \/ IsTiny(a)

Abs(a) == IF a < 0 THEN -a ELSE a

\* the sign of any value but NaN
Sign(a) == IF a < 0 THEN -1 ELSE IF a > 0 THEN 1 ELSE 0

\* the sign of a product or quotient; zero counts as +0
SignOf(a, b) == IF (a < 0) = (b < 0) THEN 1 ELSE -1

Overflow(n) ==
    IF n > MaxFinite THEN PosInf ELSE IF n < -MaxFinite THEN NegInf ELSE n

FNeg(a) == IF a = NaN THEN NaN ELSE -a

\* a residual is absorbed by any number the model resolves; two residuals of
\* opposite sign cancel
FAdd(a, b) ==
    IF a = NaN \/ b = NaN THEN NaN
    ELSE IF ~IsFinite(a) /\ ~IsFinite(b) THEN (IF a = b THEN a ELSE NaN)
    ELSE IF ~IsFinite(a) THEN a
    ELSE IF ~IsFinite(b) THEN b
    ELSE IF IsTiny(a) /\ IsTiny(b) THEN (IF a = b THEN a ELSE 0)
    ELSE IF IsTiny(a) THEN (IF b = 0 THEN a ELSE b)
    ELSE IF IsTiny(b) THEN (IF a = 0 THEN b ELSE a)
    ELSE Overflow(a + b)

FSub(a, b) == FAdd(a, FNeg(b))

FMul(a, b) ==
    IF a = NaN \/ b = NaN THEN NaN
    ELSE IF ~IsFinite(a) \/ ~IsFinite(b)
         THEN (IF a = 0 \/ b = 0 THEN NaN ELSE SignOf(a, b) * PosInf)
    ELSE IF a = 0 \/ b = 0 THEN 0
    ELSE IF IsTiny(a) \/ IsTiny(b) THEN SignOf(a, b) * Tiny
    ELSE IF Abs(a) > MaxFinite \div Abs(b) THEN SignOf(a, b) * PosInf
    ELSE a * b

\* a quotient below one unit is a residual, never zero; the quotient of two
\* residuals is a number of ordinary size, taken to be 1
FDiv(a, b) ==
    IF a = NaN \/ b = NaN THEN NaN
    ELSE IF ~IsFinite(a) THEN (IF ~IsFinite(b) THEN NaN ELSE SignOf(a, b) * PosInf)
    ELSE IF ~IsFinite(b) THEN 0
    ELSE IF b = 0 THEN (IF a = 0 THEN NaN ELSE SignOf(a, b) * PosInf)
    ELSE IF a = 0 THEN 0
    ELSE IF IsTiny(b) THEN SignOf(a, b) * (IF IsTiny(a) THEN 1 ELSE PosInf)
    ELSE IF IsTiny(a) \/ Abs(a) < Abs(b) THEN SignOf(a, b) * Tiny
    ELSE SignOf(a, b) * (Abs(a) \div Abs(b))

\* f64::powi(2)
Powi2(a) == FMul(a, a)

RECURSIVE SqrtBits(_, _, _)
SqrtBits(n, r, bit) ==
    IF bit = 0 THEN r
    ELSE IF (r + bit) * (r + bit) <= n THEN SqrtBits(n, r + bit, bit \div 2)
    ELSE SqrtBits(n, r, bit \div 2)

\* f64::sqrt
FSqrt(a) ==
    IF a = NaN \/ a < 0 THEN NaN
    ELSE IF a = PosInf \/ a = Tiny THEN a
    ELSE SqrtBits(a, 0, 16384)

\* f64::atan2: the angle is kept as the direction <<x, y>> it stands for; atan2(0, 0) = 0
Atan2(y, x) ==
    IF y = NaN \/ x = NaN THEN <<NaN, NaN>>
    ELSE IF IsFinite(x) /\ IsFinite(y)
         THEN (IF x = 0 /\ y = 0 THEN <<1, 0>>
               ELSE IF (IsInt(x) /\ x # 0) \/ (IsInt(y) /\ y # 0) THEN <<x, y>>
               ELSE <<Sign(x), Sign(y)>>)
    ELSE <<IF IsFinite(x) THEN 0 ELSE Sign(x), IF IsFinite(y) THEN 0 ELSE Sign(y)>>

\* the length of the direction an angle is kept as
Radius(theta) == FSqrt(FAdd(Powi2(theta[1]), Powi2(theta[2])))

\* <<theta.cos() * force, theta.sin() * force>>.  No f64 is pi or pi/2: the
\* angle of a direction along the negative x axis is the f64 below pi in
\* magnitude, whose sine is 1.2e-16 and not 0, and the angle of a direction
\* along the y axis is the f64 below pi/2 in magnitude, whose cosine is 6.1e-17.
CosSinTimes(theta, force) ==
    LET x == theta[1]
        y == theta[2]
        radius == Radius(theta)
    IN  <<IF IsInt(y) /\ y # 0 /\ (x = 0 \/ IsTiny(x))
          THEN FMul(Tiny, force)
          ELSE FDiv(FMul(x, force), radius),
          IF IsInt(x) /\ x < 0 /\ (y = 0 \/ IsTiny(y))
          THEN FMul(IF y < 0 THEN -Tiny ELSE Tiny, force)
          ELSE FDiv(FMul(y, force), radius)>>

(***************************************************************************)
(* f32 screen coordinates, in units of 1/8 pixel                           *)
(***************************************************************************)
F32Bits == 24
PixelUnits == 8

RECURSIVE RoundTo(_, _)
\* n > 0 to F32Bits significant bits, ties to even; q is the power of two of the last kept bit
RoundTo(n, q) ==
    IF n < 2^F32Bits * q
    THEN LET lo == (n \div q) * q
             rest == n - lo
         IN  IF 2 * rest < q THEN lo
             ELSE IF 2 * rest > q THEN lo + q
             ELSE IF (n \div q) % 2 = 0 THEN lo ELSE lo + q
    ELSE RoundTo(n, 2 * q)

F32Round(n) == IF n = 0 THEN 0 ELSE Sign(n) * RoundTo(Abs(n), 1)

\* `as f32`
AsF32(a) == IF IsInt(a) THEN F32Round(a) ELSE a

(***************************************************************************)
(* Constants of planets/mod.rs, in the model's units                       *)
(***************************************************************************)
AU == 1000
GRAVITY == 20000000
SCALE_NUM == 250
TIMESTEP == 2
MAX_TRAIL_SIZE == 1000

\* x * SCALE, with SCALE = 250 / AU pixels per length unit
TimesScale(x) == FDiv(FMul(x, SCALE_NUM * PixelUnits), AU)

(***************************************************************************)
(* Gravity integrator                                                      *)
(***************************************************************************)
\* calculate_force with a guard: bodies at no distance exert no force
calculate_force_guarded(position, mass, other_position, other_mass) ==
    LET distance_x == FSub(other_position.x, position.x)
        distance_y == FSub(other_position.y, position.y)
        total_distance == FSqrt(FAdd(Powi2(distance_x), Powi2(distance_y)))
        force == FDiv(FMul(FMul(GRAVITY, mass), other_mass), Powi2(total_distance))
        theta == Atan2(distance_y, distance_x)
    IN  IF total_distance = 0 THEN <<0, 0>> ELSE CosSinTimes(theta, force)

calculate_force(position, mass, other_position, other_mass) ==
    LET distance_x == FSub(other_position.x, position.x)
        distance_y == FSub(other_position.y, position.y)
        total_distance == FSqrt(FAdd(Powi2(distance_x), Powi2(distance_y)))
        force == FDiv(FMul(FMul(GRAVITY, mass), other_mass), Powi2(total_distance))
        theta == Atan2(distance_y, distance_x)
    IN  CosSinTimes(theta, force)

RECURSIVE TotalForce(_, _, _, _, _)
\* the inner loop of apply_gravity: the entities are visited in the query's order ord
TotalForce(ps, entity, ord, k, total) ==
    IF k > Len(ord) THEN total
    ELSE LET other_entity == ord[k]
             total_force == calculate_force(ps[entity].position, ps[entity].mass,
                                            ps[other_entity].position, ps[other_entity].mass)
         IN  IF entity # other_entity
             THEN TotalForce(ps, entity, ord, k + 1,
                             <<FAdd(total[1], total_force[1]), FAdd(total[2], total_force[2])>>)
             ELSE TotalForce(ps, entity, ord, k + 1, total)

\* the acceleration taken to be the force: the division by the mass is left out
NewVelocityNoMass(ps, entity, ord) ==
    LET total == TotalForce(ps, entity, ord, 1, <<0, 0>>)
    IN  <<FAdd(ps[entity].velocity.x, FMul(total[1], TIMESTEP)),
          FAdd(ps[entity].velocity.y, FMul(total[2], TIMESTEP))>>

\* the body of the outer loop: the velocity pushed to velocity_store for one entity
NewVelocity(ps, entity, ord) ==
    LET total == TotalForce(ps, entity, ord, 1, <<0, 0>>)
        mass == ps[entity].mass
    IN  <<FAdd(ps[entity].velocity.x, FMul(FDiv(total[1], mass), TIMESTEP)),
          FAdd(ps[entity].velocity.y, FMul(FDiv(total[2], mass), TIMESTEP))>>

RECURSIVE VelocityStore(_, _, _, _)
\* the first loop: one entry pushed per entity, in iteration order
VelocityStore(ps, ord, k, velocity_store) ==
    IF k > Len(ord) THEN velocity_store
    ELSE VelocityStore(ps, ord, k + 1, Append(velocity_store, NewVelocity(ps, ord[k], ord)))

\* the second loop moving each entity by the velocity it had before the tick
WriteBackOldVelocity(ps, ord, velocity_store) ==
    [e \in 1..Len(ps) |->
        LET i == CHOOSE k \in 1..Len(ord) : ord[k] = e
        IN  [ps[e] EXCEPT
                !.velocity = [x |-> velocity_store[i][1], y |-> velocity_store[i][2]],
                !.position = [x |-> FAdd(ps[e].position.x, FMul(ps[e].velocity.x, TIMESTEP)),
                              y |-> FAdd(ps[e].position.y, FMul(ps[e].velocity.y, TIMESTEP))]]]

\* the second loop: the i-th entity visited takes velocity_store[i], then moves
WriteBack(ps, ord, velocity_store) ==
    [e \in 1..Len(ps) |->
        LET i == CHOOSE k \in 1..Len(ord) : ord[k] = e
            vx == velocity_store[i][1]
            vy == velocity_store[i][2]
        IN  [ps[e] EXCEPT
                !.velocity = [x |-> vx, y |-> vy],
                !.position = [x |-> FAdd(ps[e].position.x, FMul(vx, TIMESTEP)),
                              y |-> FAdd(ps[e].position.y, FMul(vy, TIMESTEP))]]]

RECURSIVE InPlace(_, _, _)
\* one loop: each entity is moved as soon as its force is known, so the entities
\* visited after it see its new position
InPlace(ps, ord, k) ==
    IF k > Len(ord) THEN ps
    ELSE LET e == ord[k]
             v == NewVelocity(ps, e, ord)
         IN  InPlace([ps EXCEPT ![e] =
                        [ps[e] EXCEPT
                            !.velocity = [x |-> v[1], y |-> v[2]],
                            !.position = [x |-> FAdd(ps[e].position.x, FMul(v[1], TIMESTEP)),
                                          y |-> FAdd(ps[e].position.y, FMul(v[2], TIMESTEP))]]],
                     ord, k + 1)

apply_gravity_in_place(ps, ord) == InPlace(ps, ord, 1)

apply_gravity(ps, ord) == WriteBack(ps, ord, VelocityStore(ps, ord, 1, <<>>))

(***************************************************************************)
(* Trail recorder                                                          *)
(***************************************************************************)
\* the new position put at the front of the list, the entry at the back evicted
add_position_at_front(positions, position) ==
    LET kept == IF Len(positions) > MAX_TRAIL_SIZE
                THEN SubSeq(positions, 1, Len(positions) - 1) ELSE positions
        x == TimesScale(position.x)
        y == TimesScale(position.y)
    IN  <<[x |-> AsF32(x), y |-> AsF32(y)]>> \o kept

add_position(positions, position) ==
    LET kept == IF Len(positions) > MAX_TRAIL_SIZE THEN Tail(positions) ELSE positions
        x == TimesScale(position.x)
        y == TimesScale(position.y)
    IN  Append(kept, [x |-> AsF32(x), y |-> AsF32(y)])

\* update_planets writing the screen coordinates back into the Position as well
UpdatedPlanetMovesBody(p) ==
    LET x == TimesScale(p.position.x)
        y == TimesScale(p.position.y)
    IN  [p EXCEPT !.translation = [x |-> AsF32(x), y |-> AsF32(y)],
                  !.position = [x |-> AsF32(x), y |-> AsF32(y)],
                  !.trail = add_position(p.trail, p.position)]

\* update_planets of planets/mod.rs, for one entity
UpdatedPlanet(p) ==
    LET x == TimesScale(p.position.x)
        y == TimesScale(p.position.y)
    IN  [p EXCEPT !.translation = [x |-> AsF32(x), y |-> AsF32(y)],
                  !.trail = add_position(p.trail, p.position)]

update_planets(ps) == [e \in 1..Len(ps) |-> UpdatedPlanet(ps[e])]

\* update_planets of main.rs: the entities there have no PlanetTrail
update_planets_main(ps) ==
    [e \in 1..Len(ps) |->
        [ps[e] EXCEPT !.translation = [x |-> AsF32(TimesScale(ps[e].position.x)),
                                       y |-> AsF32(TimesScale(ps[e].position.y))]]]

(***************************************************************************)
(* Body registry: spawn_planets                                            *)
(***************************************************************************)
MaxBodies == 3

\* planet_list: the rows (mass, velocity, position) a configuration is drawn from
BodyTable ==
    << [mass |-> 3, velocity |-> [x |-> 0, y |-> 0],      position |-> [x |-> 0, y |-> 0]],
       [mass |-> 1, velocity |-> [x |-> 0, y |-> 100],    position |-> [x |-> -1000, y |-> 0]],
       [mass |-> 2, velocity |-> [x |-> 0, y |-> -100],   position |-> [x |-> 1000, y |-> 0]],
       [mass |-> 1, velocity |-> [x |-> 0, y |-> 0],      position |-> [x |-> 600, y |-> 800]],
       [mass |-> 2, velocity |-> [x |-> 0, y |-> 0],      position |-> [x |-> 0, y |-> 0]],
       [mass |-> 2, velocity |-> [x |-> -100, y |-> 0],   position |-> [x |-> -600, y |-> -800]] >>

RECURSIVE Ascending(_)
\* the members of a set of row numbers, in planet_list order
Ascending(S) ==
    IF S = {} THEN <<>>
    ELSE LET least == CHOOSE r \in S : \A q \in S : r <= q
         IN  <<least>> \o Ascending(S \ {least})

\* SpaceObjectBundle::new and the Transform spawn_planets gives it
SpaceObjectBundle(row) ==
    [mass |-> row.mass,
     velocity |-> row.velocity,
     position |-> row.position,
     translation |-> [x |-> AsF32(FMul(row.position.x, PixelUnits)),
                      y |-> AsF32(FMul(row.position.y, PixelUnits))],
     trail |-> <<>>]

spawn_planets(rows) == [e \in 1..Len(rows) |-> SpaceObjectBundle(BodyTable[rows[e]])]

Configurations ==
    {Ascending(S) : S \in {T \in SUBSET (1..Len(BodyTable)) :
                              Cardinality(T) >= 1 /\ Cardinality(T) <= MaxBodies}}

(***************************************************************************)
(* The camera: f32 zoom scale, pan offset, the right mouse button          *)
(***************************************************************************)
MOUSE_SENSITIVITY_NUM == 3
MOUSE_SENSITIVITY_DEN == 2
PIXEL_ZOOM_NUM == 5
PIXEL_ZOOM_DEN == 4
INITIAL_SCALE == 2

\* a MouseWheel's y counts half notches, so that 1.0 is Notch and 0.5 is 1
Notch == 2

\* a / b for a, b > 0, rounded to the nearest integer, ties to even
RoundHalfEven(a, b) ==
    LET q == a \div b
        r == a % b
    IN  IF 2 * r < b THEN q
        ELSE IF 2 * r > b THEN q + 1
        ELSE IF q % 2 = 0 THEN q ELSE q + 1

RECURSIVE Normalise(_, _, _)
\* the f32 nearest to (a / b) * 2^(e - F32Bits + 1): significand m with
\* 2^(F32Bits - 1) <= m < 2^F32Bits, and exponent
Normalise(a, b, e) ==
    IF a < 2^(F32Bits - 1) * b THEN Normalise(2 * a, b, e - 1)
    ELSE IF a >= 2^F32Bits * b THEN Normalise(a, 2 * b, e + 1)
    ELSE LET m == RoundHalfEven(a, b)
         IN  IF m = 2^F32Bits THEN [m |-> 2^(F32Bits - 1), e |-> e + 1]
             ELSE [m |-> m, e |-> e]

\* the f32 of a positive integer
F32Of(n) == Normalise(n, 1, F32Bits - 1)

\* scale * (num / den) and scale / (num / den), as f32 computes them
F32Times(scale, num, den) == Normalise(scale.m * num, den, scale.e)

F32Over(scale, num, den) == Normalise(scale.m * den, num, scale.e)

\* the distance from prior to scale, in units of the last place of prior, rounded up
UlpsFrom(prior, scale) ==
    IF scale.e = prior.e THEN Abs(scale.m - prior.m)
    ELSE IF scale.e = prior.e + 1 THEN Abs(2 * scale.m - prior.m)
    ELSE IF scale.e = prior.e - 1 THEN (Abs(2 * prior.m - scale.m) + 1) \div 2
    ELSE 2^F32Bits

\* the body of zoom_control's loop with the Pixel arm dividing by MOUSE_SENSITIVITY
ZoomStepOneDivisor(scale, ev) ==
    IF ev.unit = "Line"
    THEN IF ev.y = -Notch
         THEN F32Times(scale, MOUSE_SENSITIVITY_NUM, MOUSE_SENSITIVITY_DEN)
         ELSE IF ev.y = Notch
         THEN F32Over(scale, MOUSE_SENSITIVITY_NUM, MOUSE_SENSITIVITY_DEN)
         ELSE scale
    ELSE IF ev.y = -Notch
         THEN F32Times(scale, PIXEL_ZOOM_NUM, PIXEL_ZOOM_DEN)
         ELSE IF ev.y = Notch
         THEN F32Over(scale, MOUSE_SENSITIVITY_NUM, MOUSE_SENSITIVITY_DEN)
         ELSE scale

\* the body of zoom_control's loop testing the sign of y, not its value
ZoomStepBySign(scale, ev) ==
    IF ev.unit = "Line"
    THEN IF ev.y < 0
         THEN F32Times(scale, MOUSE_SENSITIVITY_NUM, MOUSE_SENSITIVITY_DEN)
         ELSE IF ev.y > 0
         THEN F32Over(scale, MOUSE_SENSITIVITY_NUM, MOUSE_SENSITIVITY_DEN)
         ELSE scale
    ELSE IF ev.y < 0
         THEN F32Times(scale, PIXEL_ZOOM_NUM, PIXEL_ZOOM_DEN)
         ELSE IF ev.y > 0
         THEN F32Over(scale, PIXEL_ZOOM_NUM, PIXEL_ZOOM_DEN)
         ELSE scale

\* the body of zoom_control's loop: one scroll event
ZoomStep(scale, ev) ==
    IF ev.unit = "Line"
    THEN IF ev.y = -Notch
         THEN F32Times(scale, MOUSE_SENSITIVITY_NUM, MOUSE_SENSITIVITY_DEN)
         ELSE IF ev.y = Notch
         THEN F32Over(scale, MOUSE_SENSITIVITY_NUM, MOUSE_SENSITIVITY_DEN)
         ELSE scale
    ELSE IF ev.y = -Notch
         THEN F32Times(scale, PIXEL_ZOOM_NUM, PIXEL_ZOOM_DEN)
         ELSE IF ev.y = Notch
         THEN F32Over(scale, PIXEL_ZOOM_NUM, PIXEL_ZOOM_DEN)
         ELSE scale

\* the last two scroll events read, each with the scale it found
Logged(log, scale, ev) ==
    LET entry == [ev |-> ev, prior |-> scale]
    IN  IF log = <<>> THEN <<entry>> ELSE <<log[Len(log)], entry>>

RECURSIVE zoom_control_last_first(_, _, _)
\* zoom_control reading the unread events from the newest to the oldest
zoom_control_last_first(scale, log, scroll) ==
    IF scroll = <<>> THEN [scale |-> scale, log |-> log]
    ELSE zoom_control_last_first(ZoomStep(scale, scroll[Len(scroll)]),
                                 Logged(log, scale, scroll[Len(scroll)]),
                                 SubSeq(scroll, 1, Len(scroll) - 1))

RECURSIVE zoom_control(_, _, _)
\* zoom_control on the scroll events unread so far: the scale and the log it leaves
zoom_control(scale, log, scroll) ==
    IF scroll = <<>> THEN [scale |-> scale, log |-> log]
    ELSE zoom_control(ZoomStep(scale, Head(scroll)),
                      Logged(log, scale, Head(scroll)),
                      Tail(scroll))

\* delta * MOUSE_SENSITIVITY for a delta in whole pixels, in 1/8 pixel
TimesSensitivity(delta) ==
    AsF32((delta * PixelUnits * MOUSE_SENSITIVITY_NUM) \div MOUSE_SENSITIVITY_DEN)

\* the body of handle_camera_pan's loop moving the camera up the screen for a
\* pointer that moves up
PanStepSameSign(translation, button, md) ==
    IF button.pressed /\ ~button.just_pressed
    THEN [x |-> AsF32(translation.x - TimesSensitivity(md.x)),
          y |-> AsF32(translation.y - TimesSensitivity(md.y))]
    ELSE translation

\* the body of handle_camera_pan's loop without the test of just_pressed
PanStepOnPress(translation, button, md) ==
    IF button.pressed
    THEN [x |-> AsF32(translation.x - TimesSensitivity(md.x)),
          y |-> AsF32(translation.y + TimesSensitivity(md.y))]
    ELSE translation

\* the body of handle_camera_pan's loop: one motion event
PanStep(translation, button, md) ==
    IF button.pressed /\ ~button.just_pressed
    THEN [x |-> AsF32(translation.x - TimesSensitivity(md.x)),
          y |-> AsF32(translation.y + TimesSensitivity(md.y))]
    ELSE translation

\* the run of equal motion events that panned, extended by md or begun anew
Streak(streak, translation, button, md) ==
    IF button.pressed /\ ~button.just_pressed
    THEN IF streak.n >= 1 /\ streak.delta = md
         THEN [streak EXCEPT !.n = streak.n + 1]
         ELSE [start |-> translation, delta |-> md, n |-> 1]
    ELSE [start |-> translation, delta |-> md, n |-> 0]

RECURSIVE handle_camera_pan(_, _, _, _)
\* handle_camera_pan on the motion events unread so far
handle_camera_pan(translation, streak, button, mouse_delta) ==
    IF mouse_delta = <<>> THEN [translation |-> translation, streak |-> streak]
    ELSE handle_camera_pan(PanStep(translation, button, Head(mouse_delta)),
                           Streak(streak, translation, button, Head(mouse_delta)),
                           button,
                           Tail(mouse_delta))

\* the camera as spawn_camera makes it, no button down, nothing read
spawn_camera ==
    /\ camera_translation = [x |-> 0, y |-> 0]
    /\ projection_scale = F32Of(INITIAL_SCALE)
    /\ input = [pressed |-> FALSE, just_pressed |-> FALSE]
    /\ handled = 0
    /\ panStreak = [start |-> [x |-> 0, y |-> 0], delta |-> [x |-> 0, y |-> 0], n |-> 0]
    /\ zoomLog = <<>>
    /\ lastRead = [system |-> "spawn_camera", events |-> <<>>]

(***************************************************************************)
(* Schedules                                                               *)
(***************************************************************************)
MaxFrames == 2
MaxDelta == 3
FixedPeriod == 2

Systems == {"apply_gravity", "update_planets"}

\* an executor order of the systems: they are added as a tuple, without an ordering
Orders == {<<"apply_gravity", "update_planets">>, <<"update_planets", "apply_gravity">>}

\* the order Query::iter and Query::iter_mut visit n entities of one archetype, none
\* of them despawned, in: the order they were spawned in
QueryOrder(n) == [k \in 1..n |-> k]

\* the orders n entities can be visited in
IterationOrders(n) ==
    {ord \in [1..n -> 1..n] : \A a, b \in 1..n : ord[a] = ord[b] => a = b}

RECURSIVE Repeat(_, _)
Repeat(seq, n) == IF n = 0 THEN <<>> ELSE seq \o Repeat(seq, n - 1)

SimInit ==
    /\ \E rows \in Configurations : planets = spawn_planets(rows)
    /\ appended = [e \in 1..Len(planets) |-> <<>>]
    /\ build \in {"plugins", "main"}
    /\ order \in Orders
    /\ pending = <<>>
    /\ frames = 0
    /\ overstep = 0
    /\ fixedTicks = 0
    /\ gravitySteps = 0
    /\ updateSteps = 0
    /\ before = <<>>
    /\ spawn_camera

\* One rendered frame begins: delta is added to the fixed-step clock, FixedUpdate
\* runs once per elapsed period, then Update runs once.
BeginFrame(delta) ==
    /\ pending = <<>>
    /\ LET ticks == (overstep + delta) \div FixedPeriod
       IN  /\ overstep' = (overstep + delta) % FixedPeriod
           /\ fixedTicks' = fixedTicks + ticks
           /\ pending' = IF build = "main" THEN Repeat(order, ticks) ELSE order
    /\ frames' = frames + 1
    /\ UNCHANGED <<planets, appended, build, order, gravitySteps, updateSteps, before>>
    /\ UNCHANGED camVars

RunApplyGravity ==
    /\ pending # <<>>
    /\ Head(pending) = "apply_gravity"
    /\ planets' = apply_gravity(planets, QueryOrder(Len(planets)))
    /\ gravitySteps' = gravitySteps + 1
    /\ before' = planets
    /\ pending' = Tail(pending)
    /\ UNCHANGED <<appended, build, order, frames, overstep, fixedTicks, updateSteps>>
    /\ UNCHANGED camVars

RunUpdatePlanets ==
    /\ pending # <<>>
    /\ Head(pending) = "update_planets"
    /\ planets' = IF build = "main" THEN update_planets_main(planets)
                                     ELSE update_planets(planets)
    /\ appended' = [e \in 1..Len(planets) |->
                       IF build = "main" THEN appended[e]
                       ELSE Append(appended[e], planets'[e].trail[Len(planets'[e].trail)])]
    /\ updateSteps' = updateSteps + 1
    /\ pending' = Tail(pending)
    /\ UNCHANGED <<build, order, frames, overstep, fixedTicks, gravitySteps, before>>
    /\ UNCHANGED camVars

\* a frame takes a short time or a long one
Frame == \E delta \in {1, MaxDelta} : frames < MaxFrames /\ BeginFrame(delta)

Next ==
    \/ Frame
    \/ RunApplyGravity
    \/ RunUpdatePlanets

Spec == SimInit /\ [][Next]_vars

(***************************************************************************)
(* Properties of the integrator and of the schedules                       *)
(***************************************************************************)
\* every coordinate and velocity is a number the model resolves
AllInt(ps) ==
    \A e \in 1..Len(ps) :
        /\ IsInt(ps[e].position.x) /\ IsInt(ps[e].position.y)
        /\ IsInt(ps[e].velocity.x) /\ IsInt(ps[e].velocity.y)

\* every coordinate and velocity is finite
AllFinite(ps) ==
    \A e \in 1..Len(ps) :
        /\ IsFinite(ps[e].position.x) /\ IsFinite(ps[e].position.y)
        /\ IsFinite(ps[e].velocity.x) /\ IsFinite(ps[e].velocity.y)

\* no operation of calculate_force(p, q) rounds, overflows or divides by zero
ExactPair(p, q) ==
    LET dx == q.position.x - p.position.x
        dy == q.position.y - p.position.y
        f == calculate_force(p.position, p.mass, q.position, q.mass)
    IN  /\ Abs(dx) <= 30000 /\ Abs(dy) <= 30000
        /\ IsInt(f[1]) /\ IsInt(f[2])
        /\ LET square == dx * dx + dy * dy
               distance == SqrtBits(square, 0, 16384)
               gmm == GRAVITY * p.mass * q.mass
           IN  /\ square > 0
               /\ distance * distance = square
               /\ gmm % square = 0
               /\ (dx * (gmm \div square)) % distance = 0
               /\ (dy * (gmm \div square)) % distance = 0

\* a run of apply_gravity on ps computes every value exactly
ExactStep(ps) ==
    /\ AllInt(ps)
    /\ \A i, j \in 1..Len(ps) : i # j => ExactPair(ps[i], ps[j])
    /\ \A i \in 1..Len(ps) :
           LET total == TotalForce(ps, i, QueryOrder(Len(ps)), 1, <<0, 0>>)
           IN  /\ IsInt(total[1]) /\ IsInt(total[2])
               /\ total[1] % ps[i].mass = 0
               /\ total[2] % ps[i].mass = 0
    /\ AllInt(apply_gravity(ps, QueryOrder(Len(ps))))

RECURSIVE MomentumFrom(_, _)
MomentumFrom(ps, e) ==
    IF e > Len(ps) THEN <<0, 0>>
    ELSE LET rest == MomentumFrom(ps, e + 1)
         IN  <<ps[e].mass * ps[e].velocity.x + rest[1],
               ps[e].mass * ps[e].velocity.y + rest[2]>>

\* the sum over the bodies of mass times velocity
Momentum(ps) == MomentumFrom(ps, 1)

\* C3: a tick gives every body the velocity computed from the positions all
\* bodies had when the tick began, and then moves it; the outcome is the same
\* for every order in which the entities are visited.
TwoPassOrderFree ==
    gravitySteps >= 1 =>
        /\ \A ord \in IterationOrders(Len(before)) :
               LET after == apply_gravity(before, ord)
               IN  \A e \in 1..Len(planets) :
                       /\ planets[e].velocity = after[e].velocity
                       /\ planets[e].position = after[e].position
        /\ \A e \in 1..Len(planets) :
               LET v == NewVelocity(before, e, QueryOrder(Len(before)))
               IN  /\ planets[e].velocity = [x |-> v[1], y |-> v[2]]
                   /\ planets[e].position =
                          [x |-> FAdd(before[e].position.x, FMul(v[1], TIMESTEP)),
                           y |-> FAdd(before[e].position.y, FMul(v[2], TIMESTEP))]

\* a tick of three bodies has run and has changed the velocity of each
TwoPassWitness ==
    /\ gravitySteps >= 1
    /\ Len(planets) = 3
    /\ AllInt(planets)
    /\ \A e \in 1..3 : planets[e].velocity # before[e].velocity

\* C4: in every tick the trail recorder runs after the integrator of that
\* tick, and the entry it appends is the scaled position the body has after
\* that integration step.
RecorderAfterIntegrator ==
    (build = "plugins" /\ updateSteps >= 1) =>
        /\ updateSteps <= gravitySteps
        /\ updateSteps = gravitySteps =>
               \A e \in 1..Len(planets) :
                   appended[e][Len(appended[e])] =
                       [x |-> AsF32(TimesScale(planets[e].position.x)),
                        y |-> AsF32(TimesScale(planets[e].position.y))]

\* C5: for distinct bodies at distinct positions the force on i from j is the
\* exact negation of the force on j from i, in both components.
ForceAntisymmetric ==
    \A i, j \in 1..Len(planets) :
        (/\ i # j
         /\ AllFinite(planets)
         /\ planets[i].position # planets[j].position) =>
            LET f == calculate_force(planets[i].position, planets[i].mass,
                                     planets[j].position, planets[j].mass)
                g == calculate_force(planets[j].position, planets[j].mass,
                                     planets[i].position, planets[i].mass)
            IN  f[1] = FNeg(g[1]) /\ f[2] = FNeg(g[2])

\* C6: a tick of bodies at pairwise distinct positions, computed in exact
\* arithmetic, leaves the total momentum as it was.
MomentumConserved ==
    (gravitySteps >= 1 /\ ExactStep(before)) => Momentum(planets) = Momentum(before)

\* an exact tick of three bodies of different masses has changed every velocity
MomentumWitness ==
    /\ gravitySteps >= 1
    /\ Len(before) = 3
    /\ ExactStep(before)
    /\ before[1].mass # before[2].mass
    /\ \A e \in 1..3 : planets[e].velocity # before[e].velocity

\* C7: in a two-body system each component of a body's velocity change in a
\* tick has the sign of that component of (other position - own position).
StrictlyAttractive ==
    (/\ gravitySteps >= 1
     /\ Len(before) = 2
     /\ AllFinite(before) /\ AllFinite(planets)
     /\ before[1].position # before[2].position) =>
        \A e \in 1..2 :
            LET other == 3 - e
            IN  /\ Sign(FSub(planets[e].velocity.x, before[e].velocity.x))
                       = Sign(FSub(before[other].position.x, before[e].position.x))
                /\ Sign(FSub(planets[e].velocity.y, before[e].velocity.y))
                       = Sign(FSub(before[other].position.y, before[e].position.y))

\* C8: between frames, the integrator and the trail recorder have each run
\* once per fixed tick, whatever the number of rendered frames.
OncePerFixedTick ==
    pending = <<>> =>
        /\ gravitySteps = fixedTicks
        /\ updateSteps = fixedTicks
        /\ build = "plugins" => \A e \in 1..Len(planets) : Len(appended[e]) = fixedTicks

RECURSIVE ForceFromFirst(_, _, _)
\* the forces on body i from the bodies 1..j other than i, added up in that order
ForceFromFirst(ps, i, j) ==
    IF j = 0 THEN <<0, 0>>
    ELSE LET sum == ForceFromFirst(ps, i, j - 1)
             f == calculate_force(ps[i].position, ps[i].mass, ps[j].position, ps[j].mass)
         IN  IF j = i THEN sum ELSE <<FAdd(sum[1], f[1]), FAdd(sum[2], f[2])>>

\* C13: a tick gives body i the velocity it had plus TIMESTEP times (the sum of
\* the forces on i from every other body at the positions before the tick,
\* divided by the mass of i), and the position it had plus TIMESTEP times that
\* new velocity.
TickIsEulerStep ==
    gravitySteps >= 1 =>
        \A i \in 1..Len(planets) :
            LET f == ForceFromFirst(before, i, Len(before))
                vx == FAdd(before[i].velocity.x, FMul(FDiv(f[1], before[i].mass), TIMESTEP))
                vy == FAdd(before[i].velocity.y, FMul(FDiv(f[2], before[i].mass), TIMESTEP))
            IN  /\ planets[i].velocity.x = vx
                /\ planets[i].velocity.y = vy
                /\ planets[i].position.x = FAdd(before[i].position.x, FMul(vx, TIMESTEP))
                /\ planets[i].position.y = FAdd(before[i].position.y, FMul(vy, TIMESTEP))

\* a tick has given three bodies three different velocities, and has moved one
\* of them to a place its old velocity would not have taken it to
EulerWitness ==
    /\ gravitySteps >= 1
    /\ Len(planets) = 3
    /\ AllInt(before) /\ AllInt(planets)
    /\ \A i, j \in 1..3 : i # j => planets[i].velocity # planets[j].velocity
    /\ \E i \in 1..3 :
           planets[i].position.x # before[i].position.x + before[i].velocity.x * TIMESTEP

\* bodies i and j of ps are two bodies at one and the same finite place
Coincident(ps, i, j) ==
    /\ i # j
    /\ IsInt(ps[i].position.x) /\ IsInt(ps[i].position.y)
    /\ IsFinite(ps[i].velocity.x) /\ IsFinite(ps[i].velocity.y)
    /\ IsFinite(ps[j].velocity.x) /\ IsFinite(ps[j].velocity.y)
    /\ ps[i].position = ps[j].position

\* no coordinate and no velocity component of p is finite, and a coordinate is NaN
NonFinite(p) ==
    /\ ~IsFinite(p.velocity.x) /\ ~IsFinite(p.velocity.y)
    /\ ~IsFinite(p.position.x) /\ ~IsFinite(p.position.y)
    /\ p.position.x = NaN \/ p.position.y = NaN

\* C16: a tick that begins with two bodies at one place runs to its end and
\* computes a non-finite force for the pair; after it neither the velocity nor
\* the position of either body is finite, and a tick that begins with such a
\* body leaves no body with a finite velocity or position.
CoincidentBodiesDiverge ==
    gravitySteps >= 1 =>
        /\ \A i, j \in 1..Len(before) :
               Coincident(before, i, j) =>
                   LET f == calculate_force(before[i].position, before[i].mass,
                                            before[j].position, before[j].mass)
                   IN  /\ ~IsFinite(f[1]) /\ ~IsFinite(f[2])
                       /\ NonFinite(planets[i])
                       /\ NonFinite(planets[j])
        /\ (\E i \in 1..Len(before) : NonFinite(before[i])) =>
               \A e \in 1..Len(planets) : NonFinite(planets[e])

\* the tick after the one that began with two bodies at one place has taken a
\* third body, finite until then, with them
DivergenceWitness ==
    /\ gravitySteps >= 2
    /\ Len(planets) = 3
    /\ NonFinite(before[1]) /\ NonFinite(before[2])
    /\ IsInt(before[3].position.x) /\ IsInt(before[3].velocity.y)
    /\ \A e \in 1..3 : NonFinite(planets[e])

\* the bodies of ps as they are spawned: nothing drawn yet, no trail
Undrawn(ps) ==
    [e \in 1..Len(ps) |-> [ps[e] EXCEPT !.translation = [x |-> 0, y |-> 0], !.trail = <<>>]]

\* position * SCALE as the f32 pair update_planets stores
OnScreen(position) ==
    [x |-> AsF32(TimesScale(position.x)), y |-> AsF32(TimesScale(position.y))]

\* C17: update_planets sets every body's translation to its position times
\* SCALE, appends that to the body's own trail (the plugins build) and leaves
\* mass, position and velocity alone; apply_gravity computes the same
\* velocities and positions whatever the translations and trails are, and
\* leaves the masses, the translations, the trails and the number of bodies
\* alone.
RenderingNeverFeedsBack ==
    [][/\ updateSteps' # updateSteps =>
              /\ Len(planets') = Len(planets)
              /\ \A e \in 1..Len(planets) :
                     LET old == planets[e]
                         new == planets'[e]
                     IN  /\ new.mass = old.mass
                         /\ new.position = old.position
                         /\ new.velocity = old.velocity
                         /\ new.translation = OnScreen(old.position)
                         /\ build = "main" => new.trail = old.trail
                         /\ build = "plugins" =>
                                /\ Len(new.trail) >= 1
                                /\ new.trail[Len(new.trail)] = OnScreen(old.position)
                                /\ LET kept == SubSeq(new.trail, 1, Len(new.trail) - 1)
                                   IN  kept = old.trail
                                          \/ (old.trail # <<>> /\ kept = Tail(old.trail))
       /\ gravitySteps' # gravitySteps =>
              /\ Len(planets') = Len(planets)
              /\ LET after == apply_gravity(Undrawn(planets), QueryOrder(Len(planets)))
                 IN  \A e \in 1..Len(planets) :
                         /\ planets'[e].mass = planets[e].mass
                         /\ planets'[e].translation = planets[e].translation
                         /\ planets'[e].trail = planets[e].trail
                         /\ planets'[e].velocity = after[e].velocity
                         /\ planets'[e].position = after[e].position]_vars

\* the integrator has run on three bodies that had been drawn and had a trail,
\* and has moved one of them away from where it is drawn
FeedbackWitness ==
    /\ build = "plugins"
    /\ gravitySteps >= 2 /\ updateSteps >= 1
    /\ Len(planets) = 3
    /\ AllInt(planets)
    /\ \A e \in 1..3 : planets[e].trail # <<>>
    /\ \E e \in 1..3 :
           /\ planets[e].translation = planets[e].trail[Len(planets[e].trail)]
           /\ planets[e].translation # OnScreen(planets[e].position)
           /\ planets[e].translation = OnScreen(before[e].position)

(***************************************************************************)
(* A long run of the plugins build with a single body, one fixed period    *)
(* per frame: the trail of that body is appended to once per frame.        *)
(***************************************************************************)
MaxTrailFrames == 1003

TrailInit ==
    /\ \E row \in {1, 2} : planets = spawn_planets(<<row>>)
    /\ appended = [e \in 1..Len(planets) |-> <<>>]
    /\ build = "plugins"
    /\ order \in Orders
    /\ pending = <<>>
    /\ frames = 0
    /\ overstep = 0
    /\ fixedTicks = 0
    /\ gravitySteps = 0
    /\ updateSteps = 0
    /\ before = <<>>
    /\ spawn_camera

TrailFrame == frames < MaxTrailFrames /\ BeginFrame(FixedPeriod)

TrailNext ==
    \/ TrailFrame
    \/ RunApplyGravity
    \/ RunUpdatePlanets

SpecTrail == TrailInit /\ [][TrailNext]_vars

\* C1: a trail never holds more than MAX_TRAIL_SIZE positions.
TrailBounded == \A e \in 1..Len(planets) : Len(planets[e].trail) <= MAX_TRAIL_SIZE

\* C2: after n > MAX_TRAIL_SIZE appends the oldest retained entry is the
\* (n - MAX_TRAIL_SIZE)-th appended position, counting from 0, and the trail
\* holds exactly the MAX_TRAIL_SIZE most recent appends.
OldestIsNMinusMax ==
    \A e \in 1..Len(planets) :
        LET n == Len(appended[e])
        IN  n > MAX_TRAIL_SIZE =>
                /\ planets[e].trail[1] = appended[e][n - MAX_TRAIL_SIZE + 1]
                /\ planets[e].trail = SubSeq(appended[e], n - MAX_TRAIL_SIZE + 1, n)

\* C12: a trail is the most recent appends of its body, in the order they were
\* appended and with none missing in between; an append adds the new position
\* at the back and removes nothing, or the front entry alone.
TrailIsFifoSuffix ==
    [][updateSteps' # updateSteps =>
          \A e \in 1..Len(planets) :
              LET old == planets[e].trail
                  new == planets'[e].trail
                  all == appended'[e]
                  n == Len(all)
                  kept == SubSeq(new, 1, Len(new) - 1)
              IN  /\ n = Len(appended[e]) + 1
                  /\ Len(new) >= 1
                  /\ new = SubSeq(all, n - Len(new) + 1, n)
                  /\ kept = old \/ (old # <<>> /\ kept = Tail(old))]_vars

\* two appends have each evicted the front entry of a trail of distinct positions
FifoWitness ==
    /\ Len(appended[1]) = Len(planets[1].trail) + 2
    /\ planets[1].trail[1] # planets[1].trail[Len(planets[1].trail)]
    /\ planets[1].trail[1] = appended[1][3]

(***************************************************************************)
(* The camera controller.  handle_camera_pan and zoom_control each read    *)
(* the events that arrived since their last run; the button state is       *)
(* refreshed once per frame, before the systems of the frame.  The systems *)
(* are the same text in camera/mod.rs and in main.rs.                      *)
(***************************************************************************)
MaxEvents == 4
MaxMotionBatch == 3
MaxWheelBatch == 2

\* MouseMotion deltas, in whole pixels
MouseMotions == {[x |-> 3, y |-> -1], [x |-> -2, y |-> 5], [x |-> 0, y |-> 1]}

\* MouseWheel events: -3, -1, 0, 0.5, 1 and 2 notches, in either unit
MouseWheels ==
    {[unit |-> u, y |-> y] : u \in {"Line", "Pixel"},
                            y \in {-3 * Notch, -Notch, 0, 1, Notch, 2 * Notch}}

Min(a, b) == IF a < b THEN a ELSE b

\* the sequences of at most n elements of S
Batches(S, n) == UNION {[1..k -> S] : k \in 0..n}

CameraInit ==
    /\ planets = spawn_planets(<<1, 2, 3>>)
    /\ appended = [e \in 1..Len(planets) |-> <<>>]
    /\ build = "plugins"
    /\ order = <<"apply_gravity", "update_planets">>
    /\ pending = <<>>
    /\ frames = 0
    /\ overstep = 0
    /\ fixedTicks = 0
    /\ gravitySteps = 0
    /\ updateSteps = 0
    /\ before = <<>>
    /\ spawn_camera

\* Input<MouseButton> at the start of a frame: just_pressed is cleared, then the
\* frame's button event, if there is one, is applied
MouseButtonInput(event) ==
    /\ input' = IF event = "Pressed"
                THEN [pressed |-> TRUE, just_pressed |-> ~input.pressed]
                ELSE IF event = "Released"
                THEN [pressed |-> FALSE, just_pressed |-> FALSE]
                ELSE [pressed |-> input.pressed, just_pressed |-> FALSE]
    /\ UNCHANGED <<camera_translation, projection_scale, handled, panStreak, zoomLog>>
    /\ UNCHANGED simVars

ButtonInput ==
    \E event \in {"Pressed", "Released", "None"} :
        MouseButtonInput(event) /\ UNCHANGED lastRead

\* one run of handle_camera_pan, reading the motion events mouse_delta
HandleCameraPanReads(mouse_delta) ==
    LET after == handle_camera_pan(camera_translation, panStreak, input, mouse_delta)
    IN  /\ camera_translation' = after.translation
        /\ panStreak' = after.streak
        /\ handled' = handled + Len(mouse_delta)
        /\ UNCHANGED <<projection_scale, input, zoomLog>>
        /\ UNCHANGED simVars

\* one run of zoom_control, reading the wheel events scroll
ZoomControlReads(scroll) ==
    LET after == zoom_control(projection_scale, zoomLog, scroll)
    IN  /\ projection_scale' = after.scale
        /\ zoomLog' = after.log
        /\ handled' = handled + Len(scroll)
        /\ UNCHANGED <<camera_translation, input, panStreak>>
        /\ UNCHANGED simVars

RunHandleCameraPan ==
    \E mouse_delta \in Batches(MouseMotions, Min(MaxMotionBatch, MaxEvents - handled)) :
        HandleCameraPanReads(mouse_delta) /\ UNCHANGED lastRead

RunZoomControl ==
    \E scroll \in Batches(MouseWheels, Min(MaxWheelBatch, MaxEvents - handled)) :
        ZoomControlReads(scroll) /\ UNCHANGED lastRead

CameraNext ==
    \/ ButtonInput
    \/ RunHandleCameraPan
    \/ RunZoomControl

SpecCamera == CameraInit /\ [][CameraNext]_vars

(***************************************************************************)
(* The camera controller again, over fewer events, with a record of what   *)
(* each step ran and read.                                                  *)
(***************************************************************************)
MaxReads == 3

RecordedButtonInput ==
    \E event \in {"Pressed", "Released", "None"} :
        /\ MouseButtonInput(event)
        /\ lastRead' = [system |-> "input", events |-> <<>>]

RecordedHandleCameraPan ==
    \E mouse_delta \in Batches(MouseMotions, Min(MaxMotionBatch, MaxReads - handled)) :
        /\ HandleCameraPanReads(mouse_delta)
        /\ lastRead' = [system |-> "handle_camera_pan", events |-> mouse_delta]

RecordedZoomControl ==
    \E scroll \in Batches(MouseWheels, Min(MaxWheelBatch, MaxReads - handled)) :
        /\ ZoomControlReads(scroll)
        /\ lastRead' = [system |-> "zoom_control", events |-> scroll]

RecordedNext ==
    \/ RecordedButtonInput
    \/ RecordedHandleCameraPan
    \/ RecordedZoomControl

SpecCameraRuns == CameraInit /\ [][RecordedNext]_vars

\* twice the distance from the f32 r to (a / b) * 2^(e - F32Bits + 1), in b-ths
\* of the unit in the last place of the exponent e - 1
OffBy(r, a, b, e) == Abs(r.m * 2^(r.e - e + 1) * b - 2 * a)

\* the f32 values next to (a / b) * 2^(e - F32Bits + 1), below and above, for
\* the exponents e - 1, e and e + 1
Neighbours(a, b, e) ==
    {r \in UNION {{[m |-> (2 * a) \div (b * 2^(d + 1)) + up, e |-> e + d] : up \in {0, 1}} :
                     d \in {-1, 0, 1}} :
        r.m >= 2^(F32Bits - 1) /\ r.m < 2^F32Bits}

\* scale * num / den as IEEE 754 defines it: of the f32 values the one nearest
\* to the exact product, and of two equally near the one with the even significand
TimesExactly(scale, num, den) ==
    LET a == scale.m * num
    IN  CHOOSE r \in Neighbours(a, den, scale.e) :
            \A other \in Neighbours(a, den, scale.e) \ {r} :
                \/ OffBy(r, a, den, scale.e) < OffBy(other, a, den, scale.e)
                \/ /\ OffBy(r, a, den, scale.e) = OffBy(other, a, den, scale.e)
                   /\ r.m % 2 = 0

\* a scroll event of one notch, up or down
OneNotch(ev) == ev.y = Notch \/ ev.y = -Notch

RECURSIVE ScaleAfter(_, _)
\* the scale after the one-notch events of scroll, the first to arrive first:
\* times 1.5 (Line) or 1.25 (Pixel) for y = -1, divided by it for y = +1
ScaleAfter(scale, scroll) ==
    IF scroll = <<>> THEN scale
    ELSE LET ev == Head(scroll)
             num == IF ev.unit = "Line" THEN MOUSE_SENSITIVITY_NUM ELSE PIXEL_ZOOM_NUM
             den == IF ev.unit = "Line" THEN MOUSE_SENSITIVITY_DEN ELSE PIXEL_ZOOM_DEN
         IN  ScaleAfter(IF ev.y = -Notch THEN TimesExactly(scale, num, den)
                                         ELSE TimesExactly(scale, den, num),
                        Tail(scroll))

\* C11: a run of zoom_control that reads one-notch events multiplies the scale
\* once per event, by 1.5 for a Line event of y = -1 and by 1.25 for a Pixel
\* event of y = -1, and divides it by the same for y = +1, taking the events
\* in the order they arrived.
ZoomOneStepPerEvent ==
    [][(/\ lastRead'.system = "zoom_control"
        /\ \A k \in 1..Len(lastRead'.events) : OneNotch(lastRead'.events[k])) =>
           projection_scale' = ScaleAfter(projection_scale, lastRead'.events)]_vars

\* one run has read a notch up and then a notch down of the other unit, and
\* the other order of the two would have left another scale
ZoomOrderWitness ==
    /\ lastRead.system = "zoom_control"
    /\ Len(lastRead.events) = 2
    /\ lastRead.events[1].y = Notch /\ lastRead.events[2].y = -Notch
    /\ lastRead.events[1].unit # lastRead.events[2].unit
    /\ Len(zoomLog) = 2
    /\ projection_scale = ScaleAfter(zoomLog[1].prior, lastRead.events)
    /\ projection_scale # ScaleAfter(zoomLog[1].prior, <<lastRead.events[2], lastRead.events[1]>>)

\* C9: N consecutive motion events of one delta (dx, dy), read while the right
\* button is held and was not pressed in this frame, move the pan offset by
\* exactly N * (-dx * MOUSE_SENSITIVITY, +dy * MOUSE_SENSITIVITY).
PanIsNTimesDelta ==
    panStreak.n >= 1 =>
        /\ MOUSE_SENSITIVITY_DEN * (camera_translation.x - panStreak.start.x)
               = -(panStreak.n * panStreak.delta.x * PixelUnits * MOUSE_SENSITIVITY_NUM)
        /\ MOUSE_SENSITIVITY_DEN * (camera_translation.y - panStreak.start.y)
               = panStreak.n * panStreak.delta.y * PixelUnits * MOUSE_SENSITIVITY_NUM

\* three equal events in a row have panned a camera that was already off the origin
PanWitness ==
    /\ panStreak.n >= 3
    /\ panStreak.delta.x # 0 /\ panStreak.delta.y # 0
    /\ panStreak.start.x # 0

\* the last two scroll events read were one notch up and one notch down, in
\* either order, in one unit
NotchPair ==
    /\ Len(zoomLog) = 2
    /\ zoomLog[1].ev.unit = zoomLog[2].ev.unit
    /\ \/ zoomLog[1].ev.y = Notch /\ zoomLog[2].ev.y = -Notch
       \/ zoomLog[1].ev.y = -Notch /\ zoomLog[2].ev.y = Notch

\* C10 as stated: a notch up immediately followed by a notch down in the same
\* unit, or down followed by up, returns the zoom scale to its prior value.
ZoomRoundTripExact == NotchPair => projection_scale = zoomLog[1].prior

\* C10: a notch up immediately followed by a notch down in the same unit, or
\* down followed by up, returns the zoom scale to within one unit in the last
\* place of its prior value.
ZoomRoundTripWithinUlp == NotchPair => UlpsFrom(zoomLog[1].prior, projection_scale) <= 1

\* a notch up and a notch down have left the scale one unit in the last place
\* from where it was
ZoomRoundTripWitness ==
    /\ NotchPair
    /\ zoomLog[1].ev.y = Notch
    /\ UlpsFrom(zoomLog[1].prior, projection_scale) = 1

\* C14: a run of handle_camera_pan that reads motion events moves the pan
\* offset only if the right button is held and was not pressed in this frame;
\* otherwise it leaves the offset as it was; and it never changes the zoom scale.
PanOnlyWhileHeld ==
    [][(lastRead'.system = "handle_camera_pan" /\ lastRead'.events # <<>>) =>
           /\ projection_scale' = projection_scale
           /\ camera_translation' # camera_translation =>
                  input.pressed /\ ~input.just_pressed
           /\ (~input.pressed \/ input.just_pressed) =>
                  camera_translation' = camera_translation]_vars

\* a motion event with a delta in x and in y has been read in the frame of a
\* press, by a camera that an earlier drag had panned
PressFrameWitness ==
    /\ lastRead.system = "handle_camera_pan"
    /\ \E k \in 1..Len(lastRead.events) :
           lastRead.events[k].x # 0 /\ lastRead.events[k].y # 0
    /\ input.pressed /\ input.just_pressed
    /\ camera_translation.x # 0
    /\ panStreak.n = 0
    /\ panStreak.start = camera_translation

RECURSIVE OneNotchOnly(_)
\* the one-notch events of scroll, in order
OneNotchOnly(scroll) ==
    IF scroll = <<>> THEN <<>>
    ELSE IF OneNotch(Head(scroll)) THEN <<Head(scroll)>> \o OneNotchOnly(Tail(scroll))
    ELSE OneNotchOnly(Tail(scroll))

\* C15: a run of zoom_control leaves the scale as if the events whose y is not
\* +1 or -1 had not been there - unchanged, if it read no other events - and
\* never changes the pan offset.
OtherScrollIgnored ==
    [][lastRead'.system = "zoom_control" =>
           /\ camera_translation' = camera_translation
           /\ projection_scale' = ScaleAfter(projection_scale, OneNotchOnly(lastRead'.events))
           /\ OneNotchOnly(lastRead'.events) = <<>> => projection_scale' = projection_scale]_vars

\* a run has read a Line event of two notches and a Pixel event of half a
\* notch, with a camera zoomed before it, and has left the scale where it was
IgnoredScrollWitness ==
    /\ lastRead.system = "zoom_control"
    /\ Len(lastRead.events) = 2
    /\ lastRead.events[1] = [unit |-> "Line", y |-> 2 * Notch]
    /\ lastRead.events[2] = [unit |-> "Pixel", y |-> 1]
    /\ zoomLog[2].prior = projection_scale
    /\ projection_scale # F32Of(INITIAL_SCALE)

====
